---- MODULE Spec2Model ----
(***************************************************************************)
(* State-machine model of the HR attrition dashboard script (src/app.py).  *)
(* One behaviour is one browser session: the script is re-executed from    *)
(* the top (a "render pass") on every user interaction.  Each action is    *)
(* one section of the script.                                              *)
(*                                                                         *)
(* Numeric columns MonthlyIncome and Age are fixed-point numbers with      *)
(* Scale units per whole, so that int() on them is a real truncation.      *)
(* Rates and means are exact rationals [nan, num, den].                    *)
(***************************************************************************)
EXTENDS Integers, Sequences, FiniteSets, TLC

\* ------------------------------------------------------------------ bounds
\* Largest number of rows in the CSV file.
MaxRows == 2
\* Fixed-point resolution of the float columns: units per whole number.
Scale == 2

\* ------------------------------------------------------------- the dataset
\* The record every modelled row is a variant of.
BaseRecord ==
  [Attrition |-> "Yes", Department |-> "Sales", JobRole |-> "Sales Executive",
   EducationField |-> "Life Sciences", Education |-> 1,
   MonthlyIncome |-> 2 * Scale, Age |-> 30 * Scale, YearsAtCompany |-> 1]

\* The alternative values of each column.
Variants ==
  [Attrition |-> {"No"}, Department |-> {"Research & Development"},
   JobRole |-> {"Manager"}, EducationField |-> {"Medical"}, Education |-> {2},
   MonthlyIncome |-> {2 * Scale + 1, 3 * Scale}, Age |-> {31 * Scale},
   YearsAtCompany |-> {0 - 1, 0, 39, 40}]

\* Rows of the input file: the base record and its single-column variants.
Records ==
  {BaseRecord} \cup
  UNION {{[BaseRecord EXCEPT ![c] = v] : v \in Variants[c]} : c \in DOMAIN Variants}

\* Non-empty CSV contents of at most MaxRows rows.
Tables == UNION {[1..n -> Records] : n \in 1..MaxRows}

\* What the file at csv_file_path can be.
FileStatus == {"ok", "missing", "malformed", "no_attrition_column"}

\* ------------------------------------------------------- pandas primitives
\* df is None / the script variable is not bound yet.
NoFrame == [isNone |-> TRUE, rows |-> <<>>]

Frame(rows) == [isNone |-> FALSE, rows |-> rows]

\* Code-point order of the strings of the object columns (Python str order).
ObjectOrder ==
  <<"Life Sciences", "Manager", "Medical", "No", "Research & Development",
    "Sales", "Sales Executive", "Yes">>

StrRank(s) == CHOOSE i \in 1..Len(ObjectOrder) : ObjectOrder[i] = s

\* The elements of S as a sequence ascending in rank (rank is injective on S).
RECURSIVE SortBy(_, _)
SortBy(S, rank) ==
  IF S = {} THEN <<>>
  ELSE LET m == CHOOSE x \in S : \A y \in S : rank[x] <= rank[y]
       IN <<m>> \o SortBy(S \ {m}, rank)

RECURSIVE SumSeq(_)
SumSeq(s) == IF s = <<>> THEN 0 ELSE Head(s) + SumSeq(Tail(s))

\* Series of one column.
Column(rows, c) == [i \in 1..Len(rows) |-> rows[i][c]]

\* Series.unique() as a set of values.
Unique(rows, c) == {rows[i][c] : i \in 1..Len(rows)}

SetMin(S) == CHOOSE x \in S : \A y \in S : x <= y
SetMax(S) == CHOOSE x \in S : \A y \in S : x >= y

\* Python int() of a fixed-point float: truncation toward zero.
PyInt(x) == IF x >= 0 THEN x \div Scale ELSE 0 - ((0 - x) \div Scale)

\* Exact rational results of float arithmetic; nan is float('nan').
Rat(n, d) == [nan |-> FALSE, num |-> n, den |-> d]
NaN == [nan |-> TRUE, num |-> 0, den |-> 1]

\* Series.mean(): NaN on an empty series.
Mean(s) == IF Len(s) = 0 THEN NaN ELSE Rat(SumSeq(s), Len(s))

\* series * 100
Times100(r) == IF r.nan THEN NaN ELSE Rat(100 * r.num, r.den)

\* --------------------------------------------------------------- load_data
\* Faulty variant: the two outcomes of the lambda swapped.
AttritionBinaryMut(x) == IF x = "No" THEN 1 ELSE 0
\* lambda x: 1 if x == 'Yes' else 0
AttritionBinary(x) == IF x = "Yes" THEN 1 ELSE 0

\* A row with added columns.
WithColumn(r, c, v) ==
  [k \in DOMAIN r \cup {c} |-> IF k = c THEN v ELSE r[k]]

\* pd.read_csv followed by the Attrition_Binary assignment; index is the
\* RangeIndex of the parsed frame.
ReadCsv(table) ==
  [i \in 1..Len(table) |->
     WithColumn(WithColumn(table[i], "index", i - 1),
                "Attrition_Binary", AttritionBinary(table[i].Attrition))]

\* ---------------------------------------------------------- sidebar filters
\* The widget values before the user touched anything.
Unset ==
  [set |-> FALSE, attrition |-> {}, department |-> {}, job_role |-> {},
   education_field |-> {}, income_range |-> <<0, 0>>, age_range |-> <<0, 0>>]

\* (min_income, max_income) and (min_age, max_age)
IntRange(rows, c) ==
  <<PyInt(SetMin(Unique(rows, c))), PyInt(SetMax(Unique(rows, c)))>>

\* default= of the four multiselects and value= of the two sliders.
Defaults(rows) ==
  [set |-> TRUE,
   attrition |-> Unique(rows, "Attrition"),
   department |-> Unique(rows, "Department"),
   job_role |-> Unique(rows, "JobRole"),
   education_field |-> Unique(rows, "EducationField"),
   income_range |-> IntRange(rows, "MonthlyIncome"),
   age_range |-> IntRange(rows, "Age")]

\* The (lo, hi) pairs a range slider between min_value and max_value offers.
SliderValues(range) ==
  {p \in (range[1]..range[2]) \X (range[1]..range[2]) : p[1] <= p[2]}

\* The values the user can set each of the six widgets to.
WidgetOptions(rows) ==
  [attrition |-> SUBSET Unique(rows, "Attrition"),
   department |-> SUBSET Unique(rows, "Department"),
   job_role |-> SUBSET Unique(rows, "JobRole"),
   education_field |-> SUBSET Unique(rows, "EducationField"),
   income_range |-> SliderValues(IntRange(rows, "MonthlyIncome")),
   age_range |-> SliderValues(IntRange(rows, "Age"))]

\* ------------------------------------------------------------ apply filters
\* Faulty variant: an empty selection treated as "all values".
IsInMut(v, values) == values = {} \/ v \in values
\* Series.isin(values)
IsIn(v, values) == v \in values

\* Faulty variant: the upper income bound exclusive.
MaskMut(r, c) ==
  /\ IsIn(r.Attrition, c.attrition)
  /\ IsIn(r.Department, c.department)
  /\ IsIn(r.JobRole, c.job_role)
  /\ IsIn(r.EducationField, c.education_field)
  /\ r.MonthlyIncome >= c.income_range[1] * Scale
  /\ r.MonthlyIncome < c.income_range[2] * Scale
  /\ r.Age >= c.age_range[1] * Scale
  /\ r.Age <= c.age_range[2] * Scale
\* The boolean mask of one row.  Slider values are whole numbers.
Mask(r, c) ==
  /\ IsIn(r.Attrition, c.attrition)
  /\ IsIn(r.Department, c.department)
  /\ IsIn(r.JobRole, c.job_role)
  /\ IsIn(r.EducationField, c.education_field)
  /\ r.MonthlyIncome >= c.income_range[1] * Scale
  /\ r.MonthlyIncome <= c.income_range[2] * Scale
  /\ r.Age >= c.age_range[1] * Scale
  /\ r.Age <= c.age_range[2] * Scale

\* df[mask]: a new frame holding the rows whose mask is True, index kept.
ApplyMask(rows, c) ==
  LET keep(r) == Mask(r, c) IN SelectSeq(rows, keep)

\* ------------------------------------------------------------- aggregation
\* bins and labels of the YearsAtCompany binning
bins == <<0, 1, 3, 5, 10, 15, 20, 30, 40>>
labels == <<"<1", "1-3", "3-5", "5-10", "10-15", "15-20", "20-30", "30+">>

\* The missing value of a categorical column.
NaNLabel == "NaN"

\* pd.cut(x, bins=bins, labels=labels, right=False) of one value: the label of
\* the interval [bins[i], bins[i+1]) holding x, NaN when no interval does.
Cut(x) ==
  IF \E i \in 1..Len(labels) : bins[i] <= x /\ x < bins[i + 1]
  THEN labels[CHOOSE i \in 1..Len(labels) : bins[i] <= x /\ x < bins[i + 1]]
  ELSE NaNLabel

\* The position of the interval holding x, counted from 0; -1 when none does.
BinCode(x) ==
  IF \E i \in 1..Len(labels) : bins[i] <= x /\ x < bins[i + 1]
  THEN (CHOOSE i \in 1..Len(labels) : bins[i] <= x /\ x < bins[i + 1]) - 1
  ELSE 0 - 1

\* Faulty variant: the bin codes also written over the YearsAtCompany column.
WithBinnedMut(rows) ==
  [i \in 1..Len(rows) |->
     WithColumn(WithColumn(rows[i], "YearsAtCompany_Binned",
                           Cut(rows[i].YearsAtCompany)),
                "YearsAtCompany", BinCode(rows[i].YearsAtCompany))]
\* filtered_df['YearsAtCompany_Binned'] = pd.cut(...): the column is written
\* into filtered_df itself.
WithBinned(rows) ==
  [i \in 1..Len(rows) |->
     WithColumn(rows[i], "YearsAtCompany_Binned", Cut(rows[i].YearsAtCompany))]

\* Sort rank of the group keys of a column.
KeyRank(col) ==
  IF col = "Education" THEN [k \in {1, 2} |-> k]
  ELSE IF col = "YearsAtCompany_Binned"
  THEN [k \in {labels[i] : i \in 1..Len(labels)} |->
          CHOOSE i \in 1..Len(labels) : labels[i] = k]
  ELSE [k \in {ObjectOrder[i] : i \in 1..Len(ObjectOrder)} |-> StrRank(k)]

\* The group keys of groupby(col): the values present; for the categorical
\* bin column NaN keys are dropped and, with observed=False, every category is
\* a key.  The modelled plain columns hold no missing value.
GroupKeys(rows, col, obs) ==
  IF col = "YearsAtCompany_Binned"
  THEN IF obs THEN Unique(rows, col) \ {NaNLabel}
       ELSE {labels[i] : i \in 1..Len(labels)}
  ELSE Unique(rows, col)

\* The rows of one group, in frame order.
GroupRows(rows, col, k) ==
  LET in(r) == r[col] = k IN SelectSeq(rows, in)

\* groupby(col)['Attrition_Binary'].mean().reset_index() with the added
\* Attrition_Rate column: one row per group key, keys ascending.
RateByDimension(rows, col, obs) ==
  LET keys == SortBy(GroupKeys(rows, col, obs), KeyRank(col))
  IN [i \in 1..Len(keys) |->
        LET m == Mean(Column(GroupRows(rows, col, keys[i]), "Attrition_Binary"))
        IN [key |-> keys[i], Attrition_Binary |-> m,
            Attrition_Rate |-> Times100(m)]]

\* The plain columns whose rate table is modelled (the other call sites run
\* the same two lines on another column).
RateColumns == {"Department", "JobRole", "EducationField", "Education"}

\* groupby(['Education', 'Attrition'])['MonthlyIncome'].mean().reset_index()
AvgIncomeEduAttrition(rows) ==
  LET pairs == {<<rows[i].Education, rows[i].Attrition>> : i \in 1..Len(rows)}
      rank == [p \in pairs |-> p[1] * (Len(ObjectOrder) + 1) + StrRank(p[2])]
      keys == SortBy(pairs, rank)
  IN [i \in 1..Len(keys) |->
        LET in(r) == r.Education = keys[i][1] /\ r.Attrition = keys[i][2]
            g == SelectSeq(rows, in)
        IN [Education |-> keys[i][1], Attrition |-> keys[i][2],
            MonthlyIncome |-> Rat(SumSeq(Column(g, "MonthlyIncome")),
                                  Len(g) * Scale)]]

\* The "N/A" headline of the rate KPI.
NA == [na |-> TRUE, num |-> 0, den |-> 1]

\* Faulty variant: the rate divided without the total_employees > 0 test.
KPIsMut(rows) ==
  LET attrition_count == Len(GroupRows(rows, "Attrition", "Yes"))
      total_employees == Len(rows)
  IN [total_employees |-> total_employees,
      attrition_count |-> attrition_count,
      attrition_rate |-> [na |-> FALSE, num |-> attrition_count * 100,
                          den |-> total_employees]]
\* The three headline numbers of tab1.
KPIs(rows) ==
  LET attrition_count == Len(GroupRows(rows, "Attrition", "Yes"))
      total_employees == Len(rows)
  IN [total_employees |-> total_employees,
      attrition_count |-> attrition_count,
      attrition_rate |->
        IF total_employees > 0
        THEN [na |-> FALSE, num |-> attrition_count * 100,
              den |-> total_employees]
        ELSE NA]

\* ------------------------------------------------------------------- state
VARIABLES
  file,         \* the CSV file: [status, table]
  observed,     \* the installed pandas' default of groupby(observed=)
  cache,        \* st.cache_data entry of load_data(csv_file_path)
  widgets,      \* the session's widget values, kept across reruns
  pc,           \* the section of the script the current pass is at
  out,          \* the elements the current pass has put on the page, in order
  df,           \* script variable df
  selected,     \* selected_* / income_range / age_range of this pass
  filtered_df,  \* script variable filtered_df
  kpi,          \* total, attrition_count, attrition_rate
  rates,        \* the attrition_by_<column> frames, by column
  attrition_by_years_company,
  avg_income_edu_attrition,
  shown         \* the frame handed to st.dataframe

vars == <<file, observed, cache, widgets, pc, out, df, selected, filtered_df,
          kpi, rates, attrition_by_years_company, avg_income_edu_attrition,
          shown>>

\* The script variables of a pass that has not assigned them yet.
NoKpi == [total_employees |-> 0, attrition_count |-> 0, attrition_rate |-> NA]

\* Faulty variant: the frames and tables of the last pass kept across the
\* rerun (as if held in st.session_state).
FreshLocalsMut ==
  /\ df' = NoFrame
  /\ selected' = Unset
  /\ UNCHANGED <<filtered_df, kpi, rates, attrition_by_years_company,
                 avg_income_edu_attrition, shown>>

\* A rerun starts with no script variable bound.
FreshLocals ==
  /\ df' = NoFrame
  /\ selected' = Unset
  /\ filtered_df' = NoFrame
  /\ kpi' = NoKpi
  /\ rates' = <<>>
  /\ attrition_by_years_company' = <<>>
  /\ avg_income_edu_attrition' = <<>>
  /\ shown' = NoFrame

Init ==
  /\ file \in [status : {"ok"}, table : Tables]
            \cup [status : FileStatus \ {"ok"}, table : {<<>>}]
  /\ observed \in BOOLEAN
  /\ cache = NoFrame
  /\ widgets = Unset
  /\ pc = "load"
  /\ out = <<>>
  /\ df = NoFrame
  /\ selected = Unset
  /\ filtered_df = NoFrame
  /\ kpi = NoKpi
  /\ rates = <<>>
  /\ attrition_by_years_company = <<>>
  /\ avg_income_edu_attrition = <<>>
  /\ shown = NoFrame

\* ----------------------------------------------------------------- actions
\* Faulty variant: every exception taken by the generic handler.
load_dataMut(f) ==
  IF f.status \in {"missing", "malformed", "no_attrition_column"}
  THEN [df |-> NoFrame, error |-> "error_load", stop |-> TRUE]
  ELSE [df |-> Frame(ReadCsv(f.table)), error |-> "", stop |-> FALSE]
\* The outcome of the body of load_data on an uncached call: the frame it
\* returns, the st.error it puts on the page, and whether it ran st.stop().
load_data(f) ==
  IF f.status = "missing"
  THEN [df |-> NoFrame, error |-> "error_not_found", stop |-> TRUE]
  ELSE IF f.status \in {"malformed", "no_attrition_column"}
  THEN [df |-> NoFrame, error |-> "error_load", stop |-> TRUE]
  ELSE [df |-> Frame(ReadCsv(f.table)), error |-> "", stop |-> FALSE]

\* df = load_data(csv_file_path); if df is None: st.stop()
LoadData ==
  /\ pc = "load"
  /\ LET r == IF cache.isNone THEN load_data(file)
              ELSE [df |-> cache, error |-> "", stop |-> FALSE]
     IN /\ out' = IF r.error = "" THEN out ELSE Append(out, r.error)
        /\ df' = IF r.stop THEN NoFrame ELSE r.df
        /\ cache' = IF r.stop THEN cache ELSE r.df
        /\ pc' = IF r.stop \/ r.df.isNone THEN "stopped" ELSE "sidebar"
  /\ UNCHANGED <<file, observed, widgets, selected, filtered_df, kpi, rates,
                 attrition_by_years_company, avg_income_edu_attrition, shown>>

\* The title and the six sidebar widgets: a widget the user has not touched
\* returns its default, a touched one the value kept in the session.
SidebarFilters ==
  /\ pc = "sidebar"
  /\ selected' = IF widgets.set THEN widgets ELSE Defaults(df.rows)
  /\ widgets' = selected'
  /\ out' = out \o <<"title", "filters">>
  /\ pc' = "filter"
  /\ UNCHANGED <<file, observed, cache, df, filtered_df, kpi, rates,
                 attrition_by_years_company, avg_income_edu_attrition, shown>>

\* filtered_df = df[...]
ApplyFilters ==
  /\ pc = "filter"
  /\ filtered_df' = Frame(ApplyMask(df.rows, selected))
  /\ pc' = "check"
  /\ UNCHANGED <<file, observed, cache, widgets, out, df, selected, kpi, rates,
                 attrition_by_years_company, avg_income_edu_attrition, shown>>

\* Faulty variant: the emptiness test made on df instead of filtered_df.
EmptyCheckDfMut ==
  /\ pc = "check"
  /\ IF Len(df.rows) = 0
     THEN out' = Append(out, "warning") /\ pc' = "stopped"
     ELSE out' = out /\ pc' = "kpi"
  /\ UNCHANGED <<file, observed, cache, widgets, df, selected, filtered_df, kpi,
                 rates, attrition_by_years_company, avg_income_edu_attrition,
                 shown>>
\* Faulty variant: the warning without st.stop().
EmptyCheckMut ==
  /\ pc = "check"
  /\ out' = IF Len(filtered_df.rows) = 0 THEN Append(out, "warning") ELSE out
  /\ pc' = "kpi"
  /\ UNCHANGED <<file, observed, cache, widgets, df, selected, filtered_df, kpi,
                 rates, attrition_by_years_company, avg_income_edu_attrition,
                 shown>>
\* if filtered_df.empty: st.warning(...); st.stop()
EmptyCheck ==
  /\ pc = "check"
  /\ IF Len(filtered_df.rows) = 0
     THEN out' = Append(out, "warning") /\ pc' = "stopped"
     ELSE out' = out /\ pc' = "kpi"
  /\ UNCHANGED <<file, observed, cache, widgets, df, selected, filtered_df, kpi,
                 rates, attrition_by_years_company, avg_income_edu_attrition,
                 shown>>

\* tab1, the three KPI columns
Tab1KPIs ==
  /\ pc = "kpi"
  /\ kpi' = KPIs(filtered_df.rows)
  /\ out' = Append(out, "kpi")
  /\ pc' = "rates"
  /\ UNCHANGED <<file, observed, cache, widgets, df, selected, filtered_df,
                 rates, attrition_by_years_company, avg_income_edu_attrition,
                 shown>>

\* The attrition_by_<column> bar charts of the plain columns.
RateCharts ==
  /\ pc = "rates"
  /\ rates' = [c \in RateColumns |-> RateByDimension(filtered_df.rows, c, observed)]
  /\ out' = Append(out, "rate_charts")
  /\ pc' = "binning"
  /\ UNCHANGED <<file, observed, cache, widgets, df, selected, filtered_df, kpi,
                 attrition_by_years_company, avg_income_edu_attrition, shown>>

\* Faulty variant: filtered_df shares its data with df, so the bin column
\* lands in df as well.
YearsAtCompanyBinnedMut ==
  /\ pc = "binning"
  /\ filtered_df' = Frame(WithBinned(filtered_df.rows))
  /\ df' = Frame(WithBinned(df.rows))
  /\ attrition_by_years_company' =
       RateByDimension(filtered_df'.rows, "YearsAtCompany_Binned", observed)
  /\ out' = Append(out, "years_chart")
  /\ pc' = "twokey"
  /\ UNCHANGED <<file, observed, cache, widgets, selected, kpi, rates,
                 avg_income_edu_attrition, shown>>

\* The binned YearsAtCompany chart: the bin column is stored in filtered_df,
\* then grouped on.
YearsAtCompanyBinned ==
  /\ pc = "binning"
  /\ filtered_df' = Frame(WithBinned(filtered_df.rows))
  /\ attrition_by_years_company' =
       RateByDimension(filtered_df'.rows, "YearsAtCompany_Binned", observed)
  /\ out' = Append(out, "years_chart")
  /\ pc' = "twokey"
  /\ UNCHANGED <<file, observed, cache, widgets, df, selected, kpi, rates,
                 avg_income_edu_attrition, shown>>

\* Average income by education level and attrition.
AvgIncomeChart ==
  /\ pc = "twokey"
  /\ avg_income_edu_attrition' = AvgIncomeEduAttrition(filtered_df.rows)
  /\ out' = Append(out, "income_chart")
  /\ pc' = "raw"
  /\ UNCHANGED <<file, observed, cache, widgets, df, selected, filtered_df, kpi,
                 rates, attrition_by_years_company, shown>>

\* tab5: st.dataframe(filtered_df)
RawData ==
  /\ pc = "raw"
  /\ shown' = filtered_df
  /\ out' = Append(out, "raw_data")
  /\ pc' = "done"
  /\ UNCHANGED <<file, observed, cache, widgets, df, selected, filtered_df, kpi,
                 rates, attrition_by_years_company, avg_income_edu_attrition>>

\* The elements on the page of this pass.
OnPage == {out[i] : i \in 1..Len(out)}

\* The six sidebar widgets.
WidgetNames ==
  {"attrition", "department", "job_role", "education_field", "income_range",
   "age_range"}

\* The user sets one sidebar widget of a finished pass to another value: the
\* script is run again from the top with fresh script variables.
UserChange ==
  /\ pc \in {"done", "stopped"}
  /\ "filters" \in OnPage
  /\ \E w \in WidgetNames : \E v \in WidgetOptions(df.rows)[w] :
       /\ v # widgets[w]
       /\ widgets' = [widgets EXCEPT ![w] = v]
  /\ pc' = "load"
  /\ out' = <<>>
  /\ FreshLocals
  /\ UNCHANGED <<file, observed, cache>>

\* The user reruns the script after a pass has ended.
Rerun ==
  /\ pc \in {"done", "stopped"}
  /\ pc' = "load"
  /\ out' = <<>>
  /\ FreshLocals
  /\ UNCHANGED <<file, observed, cache, widgets>>

Next ==
  \/ LoadData
  \/ SidebarFilters
  \/ ApplyFilters
  \/ EmptyCheck
  \/ Tab1KPIs
  \/ RateCharts
  \/ YearsAtCompanyBinned
  \/ AvgIncomeChart
  \/ RawData
  \/ UserChange
  \/ Rerun

Spec == Init /\ [][Next]_vars

\* ------------------------------------------------------------ properties
\* The pass has computed filtered_df.
Filtered == ~filtered_df.isNone

\* The index labels of the rows of a frame.
Indexes(frame) == {frame.rows[i].index : i \in 1..Len(frame.rows)}

\* Row fr of a view is row r of the full table, column by column.
SameRecord(fr, r) == \A c \in DOMAIN r : fr[c] = r[c]

\* The view holds rows of the full table only, each at most once.
ViewOfDataset ==
  /\ \A j \in 1..Len(filtered_df.rows) : \E i \in 1..Len(df.rows) :
       SameRecord(filtered_df.rows[j], df.rows[i])
  /\ Cardinality(Indexes(filtered_df)) = Len(filtered_df.rows)

\* The criteria of the claim, on a row of the full table.
Qualifies(r) ==
  /\ r.Attrition \in selected.attrition
  /\ r.Department \in selected.department
  /\ r.JobRole \in selected.job_role
  /\ r.EducationField \in selected.education_field
  /\ selected.income_range[1] * Scale <= r.MonthlyIncome
  /\ r.MonthlyIncome <= selected.income_range[2] * Scale
  /\ selected.age_range[1] * Scale <= r.Age
  /\ r.Age <= selected.age_range[2] * Scale

\* C1: a record of the dataset is in the filtered view if and only if each of
\* its four categorical values is in the selected set of its dimension and
\* its MonthlyIncome and Age lie in the selected ranges, both ends inclusive;
\* the view holds nothing else.
C1_FilterExact ==
  Filtered =>
    /\ ViewOfDataset
    /\ \A i \in 1..Len(df.rows) :
         df.rows[i].index \in Indexes(filtered_df) <=> Qualifies(df.rows[i])

\* C1 witness: a two-row table filtered to the one row whose income equals
\* both ends of the selected range.
C1_Witness ==
  /\ pc = "check"
  /\ Len(df.rows) = 2
  /\ Len(filtered_df.rows) = 1
  /\ selected.income_range[1] = selected.income_range[2]
  /\ filtered_df.rows[1].MonthlyIncome = selected.income_range[2] * Scale
  /\ \E i \in 1..2 : df.rows[i].MonthlyIncome < selected.income_range[1] * Scale

\* C2 (as claimed): the view is a subset of the dataset, and with the default
\* criteria the program builds it is the whole dataset.
C2_DefaultIsWhole ==
  Filtered =>
    /\ ViewOfDataset
    /\ Len(filtered_df.rows) <= Len(df.rows)
    /\ selected = Defaults(df.rows) => Len(filtered_df.rows) = Len(df.rows)

\* C3: when the selected set of a categorical dimension is empty the view has
\* no row, whatever the other criteria, and the pass ends with the warning.
SomeSelectionEmpty ==
  \/ selected.attrition = {}
  \/ selected.department = {}
  \/ selected.job_role = {}
  \/ selected.education_field = {}

C3_EmptySelection ==
  (Filtered /\ SomeSelectionEmpty) =>
    /\ Len(filtered_df.rows) = 0
    /\ pc \in {"check", "stopped"}
    /\ pc = "stopped" => "warning" \in OnPage

\* C3 witness: only the Department selection is empty, every row meets all the
\* other criteria, and the pass has ended with the warning.
C3_Witness ==
  /\ pc = "stopped"
  /\ "warning" \in OnPage
  /\ selected.department = {}
  /\ \A i \in 1..Len(df.rows) :
       /\ df.rows[i].Attrition \in selected.attrition
       /\ df.rows[i].JobRole \in selected.job_role
       /\ df.rows[i].EducationField \in selected.education_field
       /\ selected.income_range[1] * Scale <= df.rows[i].MonthlyIncome
       /\ df.rows[i].MonthlyIncome <= selected.income_range[2] * Scale
       /\ selected.age_range[1] * Scale <= df.rows[i].Age
       /\ df.rows[i].Age <= selected.age_range[2] * Scale

\* The page elements of the aggregation and display steps.
AggregationElements ==
  {"kpi", "rate_charts", "years_chart", "income_chart", "raw_data"}

\* C4: in a pass whose view is empty the warning is the last thing put on the
\* page and the pass halts there: no KPI, rate, binning, two-key or raw-data
\* step runs.
C4_EmptyHalts ==
  (Filtered /\ Len(filtered_df.rows) = 0) =>
    /\ pc \in {"check", "stopped"}
    /\ OnPage \cap AggregationElements = {}
    /\ pc = "check" => "warning" \notin OnPage
    /\ pc = "stopped" => out = <<"title", "filters", "warning">>
    /\ kpi = NoKpi /\ rates = <<>> /\ attrition_by_years_company = <<>>
    /\ avg_income_edu_attrition = <<>> /\ shown = NoFrame

\* C4 witness: a pass halted by the warning on an empty view.
C4_Witness ==
  /\ Filtered
  /\ Len(filtered_df.rows) = 0
  /\ pc = "stopped"
  /\ out[Len(out)] = "warning"

\* C5: when loading fails the pass shows one error and halts: the not-found
\* error for a missing file, the generic load error for a file that does not
\* parse or has no Attrition column; no later section runs and no frame is
\* bound or cached.
C5_LoadFailureHalts ==
  file.status # "ok" =>
    /\ pc \in {"load", "stopped"}
    /\ pc = "load" => out = <<>>
    /\ pc = "stopped" =>
         out = IF file.status = "missing" THEN <<"error_not_found">>
               ELSE <<"error_load">>
    /\ df = NoFrame /\ cache = NoFrame /\ filtered_df = NoFrame
    /\ widgets = Unset /\ selected = Unset
    /\ kpi = NoKpi /\ rates = <<>> /\ attrition_by_years_company = <<>>
    /\ avg_income_edu_attrition = <<>> /\ shown = NoFrame

\* C5 witness: a pass halted on a missing file.
C5_Witness ==
  /\ file.status = "missing"
  /\ pc = "stopped"
  /\ out = <<"error_not_found">>

\* The rows of the view whose column col holds k, by index label.
RowsWith(col, k) ==
  {i \in 1..Len(filtered_df.rows) : filtered_df.rows[i][col] = k}

\* Those of them that left the organisation.
LeaversWith(col, k) ==
  {i \in RowsWith(col, k) : filtered_df.rows[i].Attrition = "Yes"}

\* The rational r is the number n / d.
RatIs(r, n, d) == ~r.nan /\ r.den # 0 /\ d # 0 /\ r.num * d = n * r.den

\* A rate table has exactly one entry per value of col in the view, holding
\* 100 * leavers / rows of that value.
ExactRates(t, col) ==
  /\ {t[i].key : i \in 1..Len(t)} = Unique(filtered_df.rows, col)
  /\ Len(t) = Cardinality(Unique(filtered_df.rows, col))
  /\ \A i \in 1..Len(t) :
       RatIs(t[i].Attrition_Rate,
             100 * Cardinality(LeaversWith(col, t[i].key)),
             Cardinality(RowsWith(col, t[i].key)))

\* The three-row example of the specification.
ExampleRows ==
  ReadCsv(<<BaseRecord,
            [BaseRecord EXCEPT !.Attrition = "No"],
            [BaseRecord EXCEPT !.Department = "Research & Development"]>>)

\* C6: over a non-empty view every plain rate table has exactly one entry per
\* value of its column present in the view, equal to 100 * (rows of that
\* value with Attrition = Yes) / (rows of that value); the example rows give
\* Sales 50 and Research & Development 100.
C6_RateByDimension ==
  /\ rates # <<>> =>
       /\ Len(filtered_df.rows) > 0
       /\ \A c \in RateColumns : ExactRates(rates[c], c)
  /\ LET t == RateByDimension(ExampleRows, "Department", observed)
     IN /\ Len(t) = 2
        /\ t[1].key = "Research & Development"
        /\ RatIs(t[1].Attrition_Rate, 100, 1)
        /\ t[2].key = "Sales" /\ RatIs(t[2].Attrition_Rate, 50, 1)

\* C6 witness: a view of two Sales rows, one of which left, charted at 50.
C6_Witness ==
  /\ rates # <<>>
  /\ Len(filtered_df.rows) = 2
  /\ Cardinality(LeaversWith("Department", "Sales")) = 1
  /\ Len(rates["Department"]) = 1
  /\ RatIs(rates["Department"][1].Attrition_Rate, 50, 1)

\* r is a defined number between 0 and 100.
Percentage(r) ==
  /\ ~r.nan
  /\ r.den > 0
  /\ 0 <= r.num
  /\ r.num <= 100 * r.den

\* The pass has charted the binned YearsAtCompany rates.
Binned == "years_chart" \in OnPage

\* C7 (as claimed): every value of every rate table, the binned one included,
\* is a defined number in [0, 100].
C7_RatesInRange ==
  /\ rates # <<>> =>
       \A c \in RateColumns : \A i \in 1..Len(rates[c]) :
         Percentage(rates[c][i].Attrition_Rate)
  /\ Binned =>
       \A i \in 1..Len(attrition_by_years_company) :
         Percentage(attrition_by_years_company[i].Attrition_Rate)

\* Exact arithmetic on rationals; NaN propagates.
RatAdd(a, b) ==
  IF a.nan \/ b.nan THEN NaN ELSE Rat(a.num * b.den + b.num * a.den, a.den * b.den)

RatTimes(k, a) == IF a.nan THEN NaN ELSE Rat(k * a.num, a.den)

\* The sum over the entries of a rate table of group size * group rate.
RECURSIVE WeightedRates(_, _)
WeightedRates(t, col) ==
  IF t = <<>> THEN Rat(0, 1)
  ELSE RatAdd(RatTimes(Cardinality(RowsWith(col, Head(t).key)),
                       Head(t).Attrition_Rate),
              WeightedRates(Tail(t), col))

\* The groups of a rate table partition the view, and the size-weighted mean
\* of the group rates is the overall rate 100 * leavers / rows.
WeightedMeanIdentity(t, col) ==
  /\ \A i \in 1..Len(filtered_df.rows) :
       Cardinality({j \in 1..Len(t) : t[j].key = filtered_df.rows[i][col]}) = 1
  /\ RatIs(WeightedRates(t, col),
           100 * Cardinality(LeaversWith("Attrition", "Yes")), 1)

\* C8 (as claimed): the weighted-mean identity holds for every rate table,
\* the binned one included.
C8_WeightedMean ==
  /\ rates # <<>> => \A c \in RateColumns : WeightedMeanIdentity(rates[c], c)
  /\ Binned =>
       WeightedMeanIdentity(attrition_by_years_company, "YearsAtCompany_Binned")

\* The label the half-open intervals give a number of years, "" outside them.
IntervalLabel(y) ==
  IF 0 <= y /\ y < 1 THEN "<1"
  ELSE IF 1 <= y /\ y < 3 THEN "1-3"
  ELSE IF 3 <= y /\ y < 5 THEN "3-5"
  ELSE IF 5 <= y /\ y < 10 THEN "5-10"
  ELSE IF 10 <= y /\ y < 15 THEN "10-15"
  ELSE IF 15 <= y /\ y < 20 THEN "15-20"
  ELSE IF 20 <= y /\ y < 30 THEN "20-30"
  ELSE IF 30 <= y /\ y < 40 THEN "30+"
  ELSE ""

\* C9 (as claimed): binning gives every row of the view the label of the
\* half-open interval holding its YearsAtCompany, and a row outside all
\* intervals is reported as out of range instead of being left out of every
\* group.
C9_EveryRowBinned ==
  Binned =>
    \A i \in 1..Len(filtered_df.rows) :
      LET r == filtered_df.rows[i]
      IN IF IntervalLabel(r.YearsAtCompany) # ""
         THEN r.YearsAtCompany_Binned = IntervalLabel(r.YearsAtCompany)
         ELSE \/ "out_of_range" \in OnPage
              \/ \E j \in 1..Len(attrition_by_years_company) :
                   attrition_by_years_company[j].key = r.YearsAtCompany_Binned

\* ------------------------------------------------- the KPIs as a function
\* The KPI section applied to any view, the empty one included.
InitKPI ==
  /\ file \in [status : {"ok"}, table : Tables]
  /\ observed = FALSE
  /\ cache = Frame(ReadCsv(file.table))
  /\ df = cache
  /\ widgets = Defaults(df.rows)
  /\ selected = widgets
  /\ filtered_df \in {Frame(<<>>), df} \cup
       {Frame(<<df.rows[i]>>) : i \in 1..Len(df.rows)}
  /\ pc = "kpi"
  /\ out = <<"title", "filters">>
  /\ kpi = NoKpi
  /\ rates = <<>>
  /\ attrition_by_years_company = <<>>
  /\ avg_income_edu_attrition = <<>>
  /\ shown = NoFrame

NextKPI == Tab1KPIs

SpecKPI == InitKPI /\ [][NextKPI]_vars

\* C10: the KPIs of a view are its row count, the number of its rows with
\* Attrition = Yes (between 0 and the row count) and, when the view has rows,
\* the rate 100 * count / total; for a view without rows the rate is the N/A
\* sentinel and nothing is divided.
C10_KPIs ==
  "kpi" \in OnPage =>
    /\ kpi.total_employees = Len(filtered_df.rows)
    /\ kpi.attrition_count = Cardinality(LeaversWith("Attrition", "Yes"))
    /\ 0 <= kpi.attrition_count
    /\ kpi.attrition_count <= kpi.total_employees
    /\ kpi.total_employees > 0 =>
         /\ ~kpi.attrition_rate.na
         /\ kpi.attrition_rate.den # 0
         /\ kpi.attrition_rate.num * kpi.total_employees
              = 100 * kpi.attrition_count * kpi.attrition_rate.den
    /\ kpi.total_employees = 0 => kpi.attrition_rate = NA

\* C10 witness: the KPIs of a view without rows, showing N/A.
C10_Witness ==
  /\ "kpi" \in OnPage
  /\ Len(filtered_df.rows) = 0
  /\ kpi.total_employees = 0
  /\ kpi.attrition_rate.na

\* The view as it is immediately after filtering, under the criteria of the
\* pass.
ViewAfterFiltering == Frame(ApplyMask(df.rows, selected))

\* C11 (as claimed): no transform changes the view: throughout the pass
\* filtered_df has the rows, columns and values it had immediately after
\* filtering, and the raw-data display receives exactly that frame.
C11_ViewNotMutated ==
  /\ Filtered => filtered_df = ViewAfterFiltering
  /\ shown # NoFrame => shown = ViewAfterFiltering

\* ------------------------------------- the transforms invoked a second time
\* The transforms applied to any non-empty view, and then one of them applied
\* once more to the view the first round left, with the criteria unchanged.
InitAgain ==
  /\ file \in [status : {"ok"}, table : Tables]
  /\ observed \in BOOLEAN
  /\ cache = Frame(ReadCsv(file.table))
  /\ df = cache
  /\ widgets = Defaults(df.rows)
  /\ selected = widgets
  /\ filtered_df \in {df} \cup {Frame(<<df.rows[i]>>) : i \in 1..Len(df.rows)}
  /\ pc = "kpi"
  /\ out = <<"title", "filters">>
  /\ kpi = NoKpi
  /\ rates = <<>>
  /\ attrition_by_years_company = <<>>
  /\ avg_income_edu_attrition = <<>>
  /\ shown = NoFrame

\* The KPI columns, a second time.
KPIsAgain ==
  /\ pc = "raw"
  /\ kpi' = KPIs(filtered_df.rows)
  /\ out' = Append(out, "kpi")
  /\ pc' = "repeated"
  /\ UNCHANGED <<file, observed, cache, widgets, df, selected, filtered_df,
                 rates, attrition_by_years_company, avg_income_edu_attrition,
                 shown>>

\* The plain rate tables, a second time.
RateChartsAgain ==
  /\ pc = "raw"
  /\ rates' = [c \in RateColumns |-> RateByDimension(filtered_df.rows, c, observed)]
  /\ out' = Append(out, "rate_charts")
  /\ pc' = "repeated"
  /\ UNCHANGED <<file, observed, cache, widgets, df, selected, filtered_df, kpi,
                 attrition_by_years_company, avg_income_edu_attrition, shown>>

\* The binning transform, a second time: the bin column is assigned again.
YearsAtCompanyBinnedAgain ==
  /\ pc = "raw"
  /\ filtered_df' = Frame(WithBinned(filtered_df.rows))
  /\ attrition_by_years_company' =
       RateByDimension(filtered_df'.rows, "YearsAtCompany_Binned", observed)
  /\ out' = Append(out, "years_chart")
  /\ pc' = "repeated"
  /\ UNCHANGED <<file, observed, cache, widgets, df, selected, kpi, rates,
                 avg_income_edu_attrition, shown>>

\* The two-key aggregation, a second time.
AvgIncomeChartAgain ==
  /\ pc = "raw"
  /\ avg_income_edu_attrition' = AvgIncomeEduAttrition(filtered_df.rows)
  /\ out' = Append(out, "income_chart")
  /\ pc' = "repeated"
  /\ UNCHANGED <<file, observed, cache, widgets, df, selected, filtered_df, kpi,
                 rates, attrition_by_years_company, shown>>

NextAgain ==
  \/ Tab1KPIs
  \/ RateCharts
  \/ YearsAtCompanyBinned
  \/ AvgIncomeChart
  \/ KPIsAgain
  \/ RateChartsAgain
  \/ YearsAtCompanyBinnedAgain
  \/ AvgIncomeChartAgain

SpecAgain == InitAgain /\ [][NextAgain]_vars

\* C12: a transform invoked a second time, on the view the first invocation
\* left and with the criteria unchanged, gives the output of the first
\* invocation: same keys, same values, same order; so does the binning.
C12_Idempotent ==
  [][pc' = "repeated" =>
       /\ kpi' = kpi
       /\ rates' = rates
       /\ attrition_by_years_company' = attrition_by_years_company
       /\ avg_income_edu_attrition' = avg_income_edu_attrition]_vars

\* C12 witness: the binning transform has run twice on a two-row view that
\* holds a row of the last bin.
C12_Witness ==
  /\ pc = "repeated"
  /\ out[Len(out)] = "years_chart"
  /\ Len(filtered_df.rows) = 2
  /\ \E i \in 1..2 : filtered_df.rows[i].YearsAtCompany_Binned = "30+"
  /\ attrition_by_years_company # <<>>

\* -------------------------------------------- a session after an empty pass
\* The sessions from the end of a pass that the empty-result warning halted,
\* for every table and every setting of the widgets that leaves no row.
InitRecover ==
  /\ file \in [status : {"ok"}, table : Tables]
  /\ observed \in BOOLEAN
  /\ cache = Frame(ReadCsv(file.table))
  /\ df = cache
  /\ widgets \in
       {w \in [set : {TRUE},
               attrition : WidgetOptions(df.rows).attrition,
               department : WidgetOptions(df.rows).department,
               job_role : WidgetOptions(df.rows).job_role,
               education_field : WidgetOptions(df.rows).education_field,
               income_range : WidgetOptions(df.rows).income_range,
               age_range : WidgetOptions(df.rows).age_range] :
          ApplyMask(df.rows, w) = <<>>}
  /\ selected = widgets
  /\ filtered_df = Frame(<<>>)
  /\ pc = "stopped"
  /\ out = <<"title", "filters", "warning">>
  /\ kpi = NoKpi
  /\ rates = <<>>
  /\ attrition_by_years_company = <<>>
  /\ avg_income_edu_attrition = <<>>
  /\ shown = NoFrame

SpecRecover == InitRecover /\ [][Next]_vars

\* The full dataset and the view the current criteria select from it.
FullDataset == ReadCsv(file.table)
CurrentView == ApplyMask(FullDataset, widgets)

\* The page of a pass that rendered every tab.
FullRendering ==
  <<"title", "filters", "kpi", "rate_charts", "years_chart", "income_chart",
    "raw_data">>

\* C13: whatever passes came before, an empty one included, every script
\* variable of the current pass is either not computed yet or what the full
\* dataset and the current criteria alone determine; a pass halts with the
\* warning exactly when the current criteria leave no row, and otherwise ends
\* with the full rendering.
C13_CurrentCriteriaOnly ==
  /\ ~df.isNone => df.rows = FullDataset
  /\ selected.set => selected = widgets
  /\ Filtered =>
       filtered_df.rows = IF Binned THEN WithBinned(CurrentView) ELSE CurrentView
  /\ kpi = IF "kpi" \in OnPage THEN KPIs(CurrentView) ELSE NoKpi
  /\ rates = IF "rate_charts" \in OnPage
             THEN [c \in RateColumns |-> RateByDimension(CurrentView, c, observed)]
             ELSE <<>>
  /\ attrition_by_years_company =
       IF Binned
       THEN RateByDimension(WithBinned(CurrentView), "YearsAtCompany_Binned",
                            observed)
       ELSE <<>>
  /\ avg_income_edu_attrition =
       IF "income_chart" \in OnPage THEN AvgIncomeEduAttrition(CurrentView)
       ELSE <<>>
  /\ shown = IF "raw_data" \in OnPage THEN Frame(WithBinned(CurrentView))
             ELSE NoFrame
  /\ (pc = "stopped" /\ Filtered) =>
       CurrentView = <<>> /\ out = <<"title", "filters", "warning">>
  /\ pc = "done" => CurrentView # <<>> /\ out = FullRendering

\* C13 witness: in a session that began with a halted empty pass, a later pass
\* under changed criteria has rendered a non-empty view in full.
C13_Witness ==
  /\ pc = "done"
  /\ Len(filtered_df.rows) > 0
  /\ out = FullRendering
  /\ shown = filtered_df

\* A frame holds the rows of the file in file order, each with the columns of
\* the file unchanged plus its index label and the Attrition_Binary column
\* derived from Attrition, and no other column.
AsLoaded(frame) ==
  /\ Len(frame.rows) = Len(file.table)
  /\ \A i \in 1..Len(frame.rows) :
       /\ DOMAIN frame.rows[i] =
            DOMAIN file.table[i] \cup {"index", "Attrition_Binary"}
       /\ \A c \in DOMAIN file.table[i] : frame.rows[i][c] = file.table[i][c]
       /\ frame.rows[i].index = i - 1
       /\ frame.rows[i].Attrition_Binary =
            IF frame.rows[i].Attrition = "Yes" THEN 1 ELSE 0

\* C14: the loaded dataset is never modified: in every pass, before and after
\* the binning step writes its column, df and the cached table have the rows
\* and columns they had at load time, with Attrition_Binary = 1 exactly on
\* the rows whose Attrition is Yes.
C14_DatasetImmutable ==
  /\ ~cache.isNone => AsLoaded(cache)
  /\ ~df.isNone => AsLoaded(df) /\ df = cache

\* C14 witness: a pass after a criteria change has run the binning step and
\* ended; its view has the bin column and the dataset has not.
C14_Witness ==
  /\ pc = "done"
  /\ widgets # Defaults(df.rows)
  /\ Len(df.rows) = 2
  /\ "YearsAtCompany_Binned" \in DOMAIN filtered_df.rows[1]
  /\ "YearsAtCompany_Binned" \notin DOMAIN df.rows[1]
  /\ \E i \in 1..2 : df.rows[i].Attrition_Binary = 0

\* C15: the KPI step only ever runs on a view with at least one row, so the
\* rate KPI always shows a number and never the N/A sentinel.
C15_NeverNA ==
  /\ pc = "kpi" => Len(filtered_df.rows) > 0
  /\ "kpi" \in OnPage =>
       /\ kpi.total_employees > 0
       /\ kpi.attrition_rate # NA
       /\ ~kpi.attrition_rate.na

\* C15 witness: the KPI step has run in a pass whose criteria, changed by the
\* user, leave one row of two.
C15_Witness ==
  /\ "kpi" \in OnPage
  /\ Len(df.rows) = 2
  /\ kpi.total_employees = 1
  /\ ~kpi.attrition_rate.na

====
